---- MODULE Spec2Model ----
(***************************************************************************)
(* Review sessions of the feedback package: getFileFeedback.execute        *)
(* (file review) and react-feedback.execute (component review), together   *)
(* with the preview servers they start and the collaborators they call     *)
(* (temporary directory, bundler, browser launcher, content store), and    *)
(* askQuestions.execute with the agent's form it poses round after round,  *)
(* the review page genFileViewHTML renders, and askHuman.execute.           *)
(*                                                                         *)
(* Text is modelled as a sequence of tokens; the token "." is the only one *)
(* the path-rewriting regular expressions distinguish.  A JavaScript       *)
(* undefined scalar is the string "undefined", an undefined path is the    *)
(* one-token sequence NoPath.                                              *)
(***************************************************************************)
EXTENDS Integers, Sequences, FiniteSets, TLC

\* ---------------------------------------------------------------- bounds
MaxPathLen == 3
MaxPosts == 2
MaxQuestions == 2
MaxRounds == 3
MaxContentLen == 4
MaxChoices == 2

\* ------------------------------------------------------- input universes
Sessions == {1, 2}
DirIds == {1, 2}
Ports == {1, 2}
PathChars == {"a", ".", "/"}
Instants == {0, 500, 1000, 60000}
ContentTypes == {"text/plain", "text/html", "text/markdown", "application/json", "image/png"}
Contents == {"undefined", "", "hello"}
JsonScalars == {"true", "false", "undefined"}

NoPath == <<"undefined">>

RECURSIVE SeqsUpTo(_)
SeqsUpTo(n) == IF n = 0 THEN {<<>>}
               ELSE LET shorter == SeqsUpTo(n - 1)
                    IN  shorter \cup {Append(p, c) : p \in shorter, c \in PathChars}

Paths == SeqsUpTo(MaxPathLen)

\* JavaScript truthiness of the modelled values: undefined, the empty string,
\* false and null are falsy.
Truthy(v) == v \notin {"undefined", "", "false", "null"}
TruthyPath(p) == p # NoPath /\ p # <<>>

\* ------------------------------------------------------------ time stamps
\* date-fns format(new Date(), "yyyyMMdd-HHmmss"): resolution one second.
FormatSeconds(ms) == ms \div 1000
\* moment().format("YYYYMMDD-HH:mm"): resolution one minute.
FormatMinutes(ms) == ms \div 60000
\* new Date().toISOString(): "<date>T<time to the second>.<millis>Z".
ISOString(ms) == <<"T" \o ToString(ms \div 1000), ".", ToString(ms % 1000) \o "Z">>

DefaultFile(ms) == <<"React-Component-Preview-">> \o ISOString(ms) \o <<".", "tsx">>

\* --------------------------------------------------- rejection file names
Dots(p) == {i \in 1..Len(p) : p[i] = "."}
Max(S) == CHOOSE i \in S : \A j \in S : j <= i
Min(S) == CHOOSE i \in S : \A j \in S : i <= j

\* filePath.replace(/(\.[^.]+)$|$/, `.rejected${ts}$1`): the first match is the
\* last dot when at least one character follows it, else the empty string at
\* the end of the path.
RejectFileName(filePath, ms) ==
  LET token == <<".", "rejected" \o ToString(FormatSeconds(ms))>>
      d == Dots(filePath)
  IN  IF d # {} /\ Max(d) < Len(filePath)
      THEN SubSeq(filePath, 1, Max(d) - 1) \o token \o SubSeq(filePath, Max(d), Len(filePath))
      ELSE filePath \o token

\* file.replace(/\./, `.rejected${ts}.`): the first dot is replaced; a name
\* without a dot is returned unchanged.
ReactRejectFileName(file, ms) ==
  LET token == <<".", "rejected" \o ToString(FormatMinutes(ms)), ".">>
      d == Dots(file)
  IN  IF d # {}
      THEN SubSeq(file, 1, Min(d) - 1) \o token \o SubSeq(file, Min(d) + 1, Len(file))
      ELSE file

\* ------------------------------------------------------------------ state
VARIABLES
  pc,         \* position of each execute call
  req,        \* the request each call was made with
  file,       \* the local target path (react-feedback defaults it)
  ws,         \* temporary workspace: [state, dir, files]
  server,     \* preview server: [state, port]
  latch,      \* resultPromise: [settled, value]
  settledBy,  \* who settled the latch: "none", "page" or "direct"
  posts,      \* number of POST /result requests handled
  lastPost,   \* the last POST /result: [accepted, answer]; accepted is "none"
              \* when the body was no JSON object
  browser,    \* "none", "opened" or "unavailable"
  writes,     \* content-store writeFile calls, in order: [path, content, ok, at]
  result,     \* the value execute returned
  error,      \* the error execute threw
  logs,       \* agent.errorLine calls made by the cleanup handler
  now,        \* wall clock, in milliseconds
  served,     \* the last request each server answered: [method, path, status]
  apc,             \* position of the askQuestions.execute call
  questions,       \* the questions parameter: sequence of [question, choices]
  questionItems,   \* Map of pending form fields, in insertion order
  completeResults, \* own properties of the answer record, in insertion order
  answers,         \* result.Questions of the last askQuestion call
  rounds,          \* number of askQuestion calls made
  response,        \* the text execute returned: [kind, entries]
  rpc,             \* position of the rendering of one review page
  rin,             \* arguments of genFileViewHTML
  rout,            \* the document genFileViewHTML returned
  rshown,          \* the text the browser displays in the preformatted block
  hpc,             \* position of the askHuman.execute call
  hin,             \* arguments of askHuman.execute
  hout             \* the value askHuman.execute returned

askVars == <<apc, questions, questionItems, completeResults, answers, rounds, response>>
renderVars == <<rpc, rin, rout, rshown>>
humanVars == <<hpc, hin, hout>>
toolVars == <<askVars, renderVars, humanVars>>

vars == <<pc, req, file, ws, server, latch, settledBy, posts, lastPost, browser,
          writes, result, error, logs, now, served, toolVars>>

NoResponse == [kind |-> "none", entries |-> <<>>]

\* askQuestions.execute before it is called.
AskIdle ==
  /\ apc = "idle"
  /\ questions = <<>>
  /\ questionItems = <<>>
  /\ completeResults = <<>>
  /\ answers = <<>>
  /\ rounds = 0
  /\ response = NoResponse

NoDocument == [effectiveContentType |-> "none", element |-> "none", src |-> "none",
               inner |-> <<>>, via |-> "none"]
NoRenderInput == [contentString |-> <<>>, contentType |-> "none", htmlContentPath |-> "none"]

\* genFileViewHTML before it is called.
RenderIdle ==
  /\ rpc = "idle"
  /\ rin = NoRenderInput
  /\ rout = NoDocument
  /\ rshown = <<>>

NoHumanInput == [copy |-> "none", question |-> "undefined",
                 choices |-> [given |-> FALSE, list |-> <<>>],
                 response_type |-> "undefined"]
NoHumanResult == [status |-> "none", response_type |-> "none", choices |-> <<>>,
                  prompt |-> "none"]

\* askHuman.execute before it is called.
HumanIdle ==
  /\ hpc = "idle"
  /\ hin = NoHumanInput
  /\ hout = NoHumanResult

ToolsIdle == AskIdle /\ RenderIdle /\ HumanIdle

NoRequest == [kind |-> "none", filePath |-> NoPath, content |-> "undefined",
              contentType |-> "undefined"]
NoWorkspace == [state |-> "none", dir |-> 0, files |-> {}, index |-> NoDocument,
                userContent |-> <<>>]
NoServer == [state |-> "none", port |-> 0]
UndefinedBody == [accepted |-> "undefined", status |-> "undefined", comment |-> "undefined"]
Pending == [settled |-> FALSE, value |-> UndefinedBody]
NoResult == [status |-> "none"]
NoPost == [accepted |-> "none", answer |-> "none"]
NoneServed == [method |-> "none", path |-> "none", status |-> 0]

\* Requests a caller can make.  contentType defaults to "text/plain" in the
\* parameter list, so it is never undefined inside execute.
FileRequests == [kind : {"file"}, filePath : Paths \cup {NoPath}, content : Contents,
                 contentType : ContentTypes]
ReactRequests == [kind : {"react"}, filePath : Paths \cup {NoPath}, content : Contents,
                  contentType : {"undefined"}]

\* Bodies of POST /result.  The preview pages send
\* JSON.stringify({accepted: accepted, comment: comment}).
PageBody(accepted, comment) ==
  [accepted |-> IF accepted THEN "true" ELSE "false", status |-> "undefined",
   comment |-> comment]
DirectBodies == [accepted : JsonScalars, status : {"undefined", "accept"},
                 comment : {"undefined"}]

\* JSON objects whose accepted field is no boolean: the number 1 and null.
\* Nothing checks the type.
LooseScalars == {"1", "null"}
LooseBodies == [accepted : LooseScalars, status : {"undefined"}, comment : {"undefined"}]

UsedDirs == {ws[s].dir : s \in {t \in Sessions : ws[t].state = "exists"}}
UsedPorts == {server[s].port : s \in {t \in Sessions : server[t].state = "listening"}}

\* mkdtemp appends a suffix no existing directory has, and listen(0) binds a
\* port no live server holds.  Names and port numbers are opaque, so the
\* least unused one stands for whichever the platform picks.
FreshDir == Min(DirIds \ UsedDirs)

\* Variant: a fixed port instead of listen(0).
FixedPort == Min(Ports)

FreePort == Min(Ports \ UsedPorts)

\* new Date() / moment(): the clock is read where the code reads it and never
\* runs backwards.
ClockRead(t) == t \in Instants /\ t >= now /\ now' = t

Init ==
  /\ pc = [s \in Sessions |-> "idle"]
  /\ req = [s \in Sessions |-> NoRequest]
  /\ file = [s \in Sessions |-> NoPath]
  /\ ws = [s \in Sessions |-> NoWorkspace]
  /\ server = [s \in Sessions |-> NoServer]
  /\ latch = [s \in Sessions |-> Pending]
  /\ settledBy = [s \in Sessions |-> "none"]
  /\ posts = [s \in Sessions |-> 0]
  /\ lastPost = [s \in Sessions |-> NoPost]
  /\ browser = [s \in Sessions |-> "none"]
  /\ writes = [s \in Sessions |-> <<>>]
  /\ result = [s \in Sessions |-> NoResult]
  /\ error = [s \in Sessions |-> "none"]
  /\ logs = [s \in Sessions |-> 0]
  /\ now = 0
  /\ served = [s \in Sessions |-> NoneServed]
  /\ ToolsIdle

\* ---------------------------------------------------------- review page
\* genFileViewHTML: the part of index.html that depends on the artifact.
\* Text is a sequence of characters here, so that an entity is several
\* characters long and the "&" it starts with is a character like any other.
HtmlChars == {"&", "<", ">", "\"", "'", "l", "t", ";"}
Texts == UNION {[1..n -> HtmlChars] : n \in 1..MaxContentLen}
RenderContentTypes == ContentTypes \cup {"text/x-markdown"}

\* const map of escapeHTML.
EntityMap ==
  [c \in {"&", "<", ">", "\"", "'"} |->
     CASE c = "&" -> <<"&", "a", "m", "p", ";">>
       [] c = "<" -> <<"&", "l", "t", ";">>
       [] c = ">" -> <<"&", "g", "t", ";">>
       [] c = "\"" -> <<"&", "q", "u", "o", "t", ";">>
       [] c = "'" -> <<"&", "#", "3", "9", ";">>]

\* str.replace(/[&<>"']/g, match => map[match]): one pass over the string,
\* every match replaced by its entity.
RECURSIVE ReplaceEach(_)
ReplaceEach(str) ==
  IF str = <<>> THEN <<>>
  ELSE (IF Head(str) \in DOMAIN EntityMap THEN EntityMap[Head(str)] ELSE <<Head(str)>>)
       \o ReplaceEach(Tail(str))

\* Variant: the text is escaped a second time.
EscapeHTMLTwice(str) == ReplaceEach(ReplaceEach(str))

EscapeHTML(str) == ReplaceEach(str)

\* Variant: the content type is declared as given.
EffectiveContentTypeKept(contentType) == contentType

\* let effectiveContentType = contentType, reset in the final else branch.
EffectiveContentType(contentType) ==
  IF contentType \in {"text/markdown", "text/x-markdown", "text/html", "application/json"}
    THEN contentType
    ELSE "text/plain"

\* The document: the type declared in the heading and the display element.
\* For markdown the inner markup is whatever marked.parse makes of the
\* content, recorded as the content it was given.
GenFileViewHTML(contentString, contentType, htmlContentPath) ==
  IF contentType = "text/markdown" \/ contentType = "text/x-markdown"
    THEN [effectiveContentType |-> EffectiveContentType(contentType),
          element |-> "div.markdown-body", src |-> "none", inner |-> contentString,
          via |-> "marked.parse"]
  ELSE IF contentType = "text/html"
    THEN [effectiveContentType |-> EffectiveContentType(contentType),
          element |-> "iframe", src |-> htmlContentPath, inner |-> <<>>, via |-> "none"]
  ELSE IF contentType = "application/json"
    THEN [effectiveContentType |-> EffectiveContentType(contentType),
          element |-> "pre", src |-> "none", inner |-> EscapeHTML(contentString),
          via |-> "escapeHTML"]
  ELSE [effectiveContentType |-> EffectiveContentType(contentType),
        element |-> "pre", src |-> "none", inner |-> EscapeHTML(contentString),
        via |-> "escapeHTML"]

\* htmlContentPath: contentType === "text/html" ? "./user_content.html" : undefined
HtmlContentPath(contentType) ==
  IF contentType = "text/html" THEN "./user_content.html" ELSE "undefined"

\* What a browser displays for the inner markup of a <pre>: each character
\* reference stands for its character, everything else for itself.
RECURSIVE DecodeEntities(_)
DecodeEntities(s) ==
  IF s = <<>> THEN <<>>
  ELSE LET hits == {c \in DOMAIN EntityMap :
                      /\ Len(s) >= Len(EntityMap[c])
                      /\ SubSeq(s, 1, Len(EntityMap[c])) = EntityMap[c]}
       IN  IF hits # {}
             THEN LET c == CHOOSE h \in hits : TRUE
                  IN  <<c>> \o DecodeEntities(SubSeq(s, Len(EntityMap[c]) + 1, Len(s)))
             ELSE <<Head(s)>> \o DecodeEntities(Tail(s))

\* ------------------------------------------------------------- helpers
Set(f, s, v) == [f EXCEPT ![s] = v]

Throw(s, e) ==
  /\ pc' = Set(pc, s, "thrown")
  /\ error' = Set(error, s, e)

\* The part of a path after its last "/".
LastSegment(p) ==
  LET slashes == {i \in 1..Len(p) : p[i] = "/"}
  IN  IF slashes = {} THEN p ELSE SubSeq(p, Max(slashes) + 1, Len(p))

\* path.join(tmp, file) names a directory (the workspace itself, its parent
\* or a name with a trailing slash): fs.writeFile cannot succeed on it.
JoinsToDirectory(p) == LastSegment(p) \in {<<>>, <<".">>, <<".", ".">>}

\* ------------------------------------------------- getFileFeedback.execute
\* Entry: the parameter check runs synchronously; a valid call goes on to
\* fs.mkdtemp.
\* Variant: the check forgets content.
FileRequestInvalidPathOnly(r) == ~TruthyPath(r.filePath)

FileRequestInvalid(r) == ~TruthyPath(r.filePath) \/ ~Truthy(r.content)

ExecuteFileReview(s) ==
  /\ pc[s] = "idle"
  /\ \E r \in FileRequests :
       /\ req' = Set(req, s, r)
       /\ file' = Set(file, s, r.filePath)
       /\ IF FileRequestInvalid(r)
          THEN Throw(s, "validation")
          ELSE /\ pc' = Set(pc, s, "mkdtemp")
               /\ UNCHANGED error
  /\ UNCHANGED <<served, toolVars>>
  /\ UNCHANGED <<ws, server, latch, settledBy, posts, lastPost, browser, writes,
                 result, logs, now>>

\* ---------------------------------------------------- react-feedback.execute
ReactRequestInvalid(r) == ~Truthy(r.content)

ExecuteReact(s) ==
  /\ pc[s] = "idle"
  /\ \E r \in ReactRequests :
       /\ req' = Set(req, s, r)
       /\ IF ReactRequestInvalid(r)
          THEN /\ Throw(s, "validation")
               /\ file' = Set(file, s, r.filePath)
               /\ UNCHANGED now
          ELSE /\ pc' = Set(pc, s, "mkdtemp")
               /\ IF r.filePath = NoPath
                  THEN \E t \in Instants :
                         /\ ClockRead(t)
                         /\ file' = Set(file, s, DefaultFile(t))
                  ELSE /\ file' = Set(file, s, r.filePath)
                       /\ UNCHANGED now
               /\ UNCHANGED error
  /\ UNCHANGED <<served, toolVars>>
  /\ UNCHANGED <<ws, server, latch, settledBy, posts, lastPost, browser, writes,
                 result, logs>>

\* Variant: the side file is written for every content type.
NeedsSideFileAlways(contentType) == TRUE

\* if (contentType === "text/html")
NeedsSideFile(contentType) == contentType = "text/html"

\* Variant: the server is started before anything is staged.
FirstStageListen(kind, contentType) == "listen"

\* The step that follows mkdtemp: react-feedback writes the component source,
\* getFileFeedback the side file when there is one, else index.html.
FirstStage(kind, contentType) ==
  IF kind = "react" THEN "writeSource"
  ELSE IF NeedsSideFile(contentType) THEN "writeUserContent"
  ELSE "writeIndex"

\* fs.mkdtemp(path.join(os.tmpdir(), TMP_PREFIX)): a directory no other live
\* workspace uses, or an error.
Mkdtemp(s) ==
  /\ pc[s] = "mkdtemp"
  /\ \/ /\ ws' = Set(ws, s, [NoWorkspace EXCEPT !.state = "exists", !.dir = FreshDir])
        /\ pc' = Set(pc, s, FirstStage(req[s].kind, req[s].contentType))
        /\ UNCHANGED error
     \/ /\ Throw(s, "mkdtemp")
        /\ UNCHANGED ws
  /\ UNCHANGED <<served, toolVars>>
  /\ UNCHANGED <<req, file, server, latch, settledBy, posts, lastPost, browser, writes,
                 result, logs, now>>

\* The content of a request as text: one token that no renderer distinguishes.
AsText(content) == <<content>>

\* genHTML({bundlePath}) of react-feedback: a fixed page that loads the bundle.
GenHTML(bundlePath) ==
  [effectiveContentType |-> "none", element |-> "script", src |-> bundlePath,
   inner |-> <<>>, via |-> "none"]

\* fs.writeFile of one preview asset into the workspace; the workspace keeps
\* what was written as index.html and as user_content.html.
Stage(s, at, name, data, next, mayWork) ==
  /\ pc[s] = at
  /\ \/ /\ mayWork
        /\ ws' = Set(ws, s, [ws[s] EXCEPT
                               !.files = @ \cup {name},
                               !.index = IF name = "index.html" THEN data ELSE @,
                               !.userContent = IF name = "user_content.html" THEN data
                                               ELSE @])
        /\ pc' = Set(pc, s, next)
        /\ UNCHANGED error
     \/ /\ Throw(s, "fs")
        /\ UNCHANGED ws
  /\ UNCHANGED <<served, toolVars>>
  /\ UNCHANGED <<req, file, server, latch, settledBy, posts, lastPost, browser, writes,
                 result, logs, now>>

WriteUserContent(s) ==
  Stage(s, "writeUserContent", "user_content.html", AsText(req[s].content), "writeIndex", TRUE)

WriteSource(s) ==
  Stage(s, "writeSource", "source", AsText(req[s].content), "build",
        ~JoinsToDirectory(file[s]))

\* The page written as index.html.
IndexHtml(r) ==
  IF r.kind = "file"
    THEN GenFileViewHTML(AsText(r.content), r.contentType, HtmlContentPath(r.contentType))
    ELSE GenHTML("./bundle.ts")

WriteIndex(s) == Stage(s, "writeIndex", "index.html", IndexHtml(req[s]), "listen", TRUE)

\* esbuild.build: writes bundle.ts or rejects with a build error.
Build(s) ==
  /\ pc[s] = "build"
  /\ \/ /\ ws' = Set(ws, s, [ws[s] EXCEPT !.files = @ \cup {"bundle.ts"}])
        /\ pc' = Set(pc, s, "writeIndex")
        /\ UNCHANGED error
     \/ /\ Throw(s, "build")
        /\ UNCHANGED ws
  /\ UNCHANGED <<served, toolVars>>
  /\ UNCHANGED <<req, file, server, latch, settledBy, posts, lastPost, browser, writes,
                 result, logs, now>>

\* startFileReviewServer / startServer: server.listen(0, cb).  The promise
\* resolves from the listening callback only; a listen error is an 'error'
\* event nobody handles, so the call either never resumes or the process dies.
Listen(s) ==
  /\ pc[s] = "listen"
  /\ \/ /\ server' = Set(server, s, [state |-> "listening", port |-> FreePort])
        /\ pc' = Set(pc, s, "open")
     \/ /\ \E outcome \in {"hung", "crashed"} : pc' = Set(pc, s, outcome)
        /\ UNCHANGED server
  /\ UNCHANGED <<served, toolVars>>
  /\ UNCHANGED <<req, file, ws, latch, settledBy, posts, lastPost, browser, writes,
                 result, error, logs, now>>

\* Step 4/5 of execute: open(url).  The launcher is a collaborator that works,
\* rejects, or is not a function at all.  getFileFeedback tests
\* typeof open === "function" and only logs the URL when it is not;
\* react-feedback calls it unconditionally.  Neither catches a rejection.
OpenOutcome(kind, launcher) ==
  IF launcher = "ok" THEN "opened"
  ELSE IF launcher = "absent" /\ kind = "file" THEN "unavailable"
  ELSE "throw"

OpenBrowser(s) ==
  /\ pc[s] = "open"
  /\ \E launcher \in {"ok", "throws", "absent"} :
       LET outcome == OpenOutcome(req[s].kind, launcher)
       IN  IF outcome = "throw"
           THEN /\ Throw(s, "open")
                /\ UNCHANGED browser
           ELSE /\ browser' = Set(browser, s, outcome)
                /\ pc' = Set(pc, s, "await")
                /\ UNCHANGED error
  /\ UNCHANGED <<served, toolVars>>
  /\ UNCHANGED <<req, file, ws, server, latch, settledBy, posts, lastPost, writes,
                 result, logs, now>>

\* ------------------------------------------------------------ POST /result
\* Variant: a mutable slot that every submission overwrites.
ResolveOverwriting(l, v) == [settled |-> TRUE, value |-> v]

\* resolveResult(v): a promise keeps its first resolution.
Resolve(l, v) == IF l.settled THEN l ELSE [settled |-> TRUE, value |-> v]

\* What the route handler passes to resolveResult: getFileFeedback picks
\* {accepted, comment} out of req.body, react-feedback passes JSON.parse(buf).
Received(kind, body) ==
  IF kind = "file" THEN [body EXCEPT !.status = "undefined"] ELSE body

PostResult(s, body, from) ==
  /\ server[s].state = "listening"
  /\ posts[s] < MaxPosts
  /\ posts' = Set(posts, s, posts[s] + 1)
  /\ lastPost' = Set(lastPost, s, [accepted |-> body.accepted, answer |-> "200 ok"])
  /\ latch' = Set(latch, s, Resolve(latch[s], Received(req[s].kind, body)))
  /\ settledBy' = Set(settledBy, s, IF latch[s].settled THEN settledBy[s] ELSE from)
  /\ UNCHANGED toolVars
  /\ UNCHANGED <<pc, req, file, ws, server, browser, writes, result, error, logs, now>>

\* The Accept and Reject buttons of the served page (a page loaded earlier
\* can still post after the workspace is gone).
PagePost(s) ==
  /\ \E accepted \in BOOLEAN, comment \in {"", "lgtm"} :
       PostResult(s, PageBody(accepted, comment), "page")
  /\ served' = Set(served, s, [method |-> "POST", path |-> "/result", status |-> 200])

\* Any other client posting a JSON object.
DirectPost(s) ==
  /\ \E body \in DirectBodies : PostResult(s, body, "direct")
  /\ served' = Set(served, s, [method |-> "POST", path |-> "/result", status |-> 200])

\* ------------------------------------------------------- any other request
Methods == {"GET", "HEAD", "POST"}
UrlPaths == {"/", "/index.html", "/user_content.html", "/bundle.ts", "/nope", "/result"}

\* The file express.static looks up for a path; "/" stands for index.html.
StaticFile(path) ==
  CASE path = "/" -> "index.html"
    [] path = "/index.html" -> "index.html"
    [] path = "/user_content.html" -> "user_content.html"
    [] path = "/bundle.ts" -> "bundle.ts"
    [] OTHER -> "none"

\* Variant: the decision route is mounted for every method.
RouteAnyMethod(method, path, w) ==
  IF method \in {"GET", "HEAD"} /\ w.state = "exists" /\ StaticFile(path) \in w.files
    THEN "static"
  ELSE IF path = "/result" THEN "result"
  ELSE "notFound"

\* The middleware chain: express.static answers GET and HEAD of a file of the
\* workspace and passes everything else on; app.post("/result") takes POST
\* /result; whatever is left gets the default 404.
Route(method, path, w) ==
  IF method \in {"GET", "HEAD"} /\ w.state = "exists" /\ StaticFile(path) \in w.files
    THEN "static"
  ELSE IF method = "POST" /\ path = "/result" THEN "result"
  ELSE "notFound"

\* One request to the preview server, dispatched by the chain.
HttpRequest(s) ==
  /\ server[s].state = "listening"
  /\ \E method \in Methods, path \in UrlPaths :
       LET route == Route(method, path, ws[s])
       IN  IF route = "result"
             THEN /\ \E body \in DirectBodies \cup LooseBodies :
                       PostResult(s, body, "direct")
                  /\ served' = Set(served, s, [method |-> method, path |-> path,
                                               status |-> 200])
             ELSE /\ served' = Set(served, s,
                                   [method |-> method, path |-> path,
                                    status |-> IF route = "static" THEN 200 ELSE 404])
                  /\ UNCHANGED toolVars
                  /\ UNCHANGED <<pc, req, file, ws, server, latch, settledBy, posts,
                                 lastPost, browser, writes, result, error, logs, now>>

\* ------------------------------------------- POST /result, no JSON object
\* Bodies that are not a JSON object: text that is no JSON at all, a JSON
\* number, a JSON array.
MalformedBodies == {"text", "number", "array"}

\* What becomes of such a body.  getFileFeedback mounts express.json(), which
\* answers 400 unless the text parses and starts an object or an array, and
\* otherwise hands the parsed value to the route handler, which reads
\* accepted and comment off it and resolves.  react-feedback collects the
\* body itself and, in the 'end' listener, calls res.end("ok") and then
\* resolveResult(JSON.parse(buf)): a SyntaxError thrown there is caught by
\* nothing and ends the Node process.
BodyOutcome(kind, raw) ==
  IF kind = "file"
    THEN IF raw = "array" THEN "resolves" ELSE "refused"
    ELSE IF raw = "text" THEN "uncaught" ELSE "resolves"

\* An uncaught exception ends the process, and with it every session and
\* every server of the process.
ProcessDown ==
  /\ pc' = [t \in Sessions |-> "crashed"]
  /\ server' = [t \in Sessions |-> [server[t] EXCEPT !.state = "none"]]

MalformedPost(s) ==
  /\ server[s].state = "listening"
  /\ posts[s] < MaxPosts
  /\ \E raw \in MalformedBodies :
       LET outcome == BodyOutcome(req[s].kind, raw)
           status == IF outcome = "refused" THEN 400 ELSE 200
       IN  /\ posts' = Set(posts, s, posts[s] + 1)
           /\ lastPost' = Set(lastPost, s,
                 [accepted |-> "none",
                  answer |-> IF outcome = "refused" THEN "400" ELSE "200 ok"])
           /\ served' = Set(served, s, [method |-> "POST", path |-> "/result",
                                        status |-> status])
           /\ IF outcome = "resolves"
                THEN /\ latch' = Set(latch, s, Resolve(latch[s], UndefinedBody))
                     /\ settledBy' = Set(settledBy, s,
                           IF latch[s].settled THEN settledBy[s] ELSE "direct")
                     /\ UNCHANGED <<pc, server>>
              ELSE IF outcome = "uncaught"
                THEN /\ ProcessDown
                     /\ UNCHANGED <<latch, settledBy>>
              ELSE UNCHANGED <<pc, server, latch, settledBy>>
  /\ UNCHANGED toolVars
  /\ UNCHANGED <<req, file, ws, browser, writes, result, error, logs, now>>

\* ------------------------------------------------- after the human decided
\* Variant: everything but the boolean false counts as acceptance.
FileAcceptedUnlessFalse(v) == v.accepted # "false"

\* if (result.accepted)
FileAccepted(v) == Truthy(v.accepted)
ReactAccepted(v) == v.status = "accept"
IsAccepted(kind, v) == IF kind = "file" THEN FileAccepted(v) ELSE ReactAccepted(v)

\* Variant: the two branches swapped.
PersistPathSwapped(kind, target, v, ms) ==
  IF ~IsAccepted(kind, v) THEN target
  ELSE IF kind = "file" THEN RejectFileName(target, ms)
  ELSE ReactRejectFileName(target, ms)

PersistPath(kind, target, v, ms) ==
  IF IsAccepted(kind, v) THEN target
  ELSE IF kind = "file" THEN RejectFileName(target, ms)
  ELSE ReactRejectFileName(target, ms)

\* const result = await resultPromise; then fileSystem.writeFile on the
\* accepted or the rejected path.  A failed write rejects execute.
\* Variant: the write does not wait for the decision.
DecisionNotAwaited(l) == TRUE

\* await resultPromise resumes once the promise is resolved.
DecisionAvailable(l) == l.settled

\* Variant: the removal of the workspace is skipped.
SkipRemoval == "stop"

\* Variant: execute waits for another decision after the write.
WriteAgain == "await"

\* The step that follows a successful write: the cleanup block.
NextAfterWrite == "rm"

\* Variant: a failed write is ignored.
WriteFailureSwallowed(ok) == "resumes"

\* await fileSystem.writeFile(...): execute resumes after the write, or the
\* rejection leaves execute (nothing catches it).
WriteOutcome(ok) == IF ok THEN "resumes" ELSE "rejects"

Persist(s) ==
  /\ pc[s] = "await"
  /\ DecisionAvailable(latch[s])
  /\ \E ok \in BOOLEAN, t \in Instants :
       /\ IF IsAccepted(req[s].kind, latch[s].value) THEN t = now /\ UNCHANGED now
          ELSE ClockRead(t)
       /\ writes' = Set(writes, s, Append(writes[s],
            [path |-> PersistPath(req[s].kind, file[s], latch[s].value, t),
             content |-> req[s].content, ok |-> ok, at |-> t]))
       /\ IF WriteOutcome(ok) = "resumes"
          THEN /\ pc' = Set(pc, s, NextAfterWrite)
               /\ UNCHANGED error
          ELSE Throw(s, "write")
  /\ UNCHANGED <<served, toolVars>>
  /\ UNCHANGED <<req, file, ws, server, latch, settledBy, posts, lastPost, browser,
                 result, logs>>

\* Variant: no try/catch around fs.rm.
RmFailureUncaught(kind) == "thrown"

\* fs.rm(tmpDir, {recursive: true, force: true}).  getFileFeedback wraps it in
\* try/catch and logs; react-feedback lets the rejection leave execute.
RmFailure(kind) == IF kind = "file" THEN "logged" ELSE "thrown"

RemoveWorkspace(s) ==
  /\ pc[s] = "rm"
  /\ \/ /\ ws' = Set(ws, s, [NoWorkspace EXCEPT !.state = "removed", !.dir = ws[s].dir])
        /\ pc' = Set(pc, s, "stop")
        /\ UNCHANGED <<error, logs>>
     \/ /\ RmFailure(req[s].kind) = "logged"
        /\ logs' = Set(logs, s, logs[s] + 1)
        /\ pc' = Set(pc, s, "stop")
        /\ UNCHANGED <<ws, error>>
     \/ /\ RmFailure(req[s].kind) = "thrown"
        /\ Throw(s, "rm")
        /\ UNCHANGED <<ws, logs>>
  /\ UNCHANGED <<served, toolVars>>
  /\ UNCHANGED <<req, file, server, latch, settledBy, posts, lastPost, browser, writes,
                 result, now>>

\* The value execute resolves with.
FileResult(target, v) ==
  [status |-> IF FileAccepted(v) THEN "accepted" ELSE "rejected",
   comment |-> v.comment,
   filePath |-> IF FileAccepted(v) THEN target ELSE NoPath,
   rejectedFilePath |-> IF FileAccepted(v) THEN NoPath ELSE target]

ReactResult(v) == v

\* stop(); return ...
StopAndReturn(s) ==
  /\ pc[s] = "stop"
  /\ server' = Set(server, s, [server[s] EXCEPT !.state = "closed"])
  /\ result' = Set(result, s, IF req[s].kind = "file"
                              THEN FileResult(file[s], latch[s].value)
                              ELSE ReactResult(latch[s].value))
  /\ pc' = Set(pc, s, "returned")
  /\ UNCHANGED <<served, toolVars>>
  /\ UNCHANGED <<req, file, ws, latch, settledBy, posts, lastPost, browser, writes,
                 error, logs, now>>

\* ------------------------------------------------------------ specification
Step(s) ==
  \/ ExecuteFileReview(s)
  \/ ExecuteReact(s)
  \/ Mkdtemp(s)
  \/ WriteUserContent(s)
  \/ WriteSource(s)
  \/ Build(s)
  \/ WriteIndex(s)
  \/ Listen(s)
  \/ OpenBrowser(s)
  \/ PagePost(s)
  \/ DirectPost(s)
  \/ Persist(s)
  \/ RemoveWorkspace(s)
  \/ StopAndReturn(s)

\* One execute call at a time.
Next == Step(1)

Spec == Init /\ [][Next]_vars

\* ------------------------------------------- two sessions at the same time
\* Two execute calls that both passed the parameter check run side by side,
\* each async function advancing at its own awaits.
ConcurrentRequests ==
  {[kind |-> "file", filePath |-> <<"a", ".", "a">>, content |-> "hello",
    contentType |-> "text/plain"],
   [kind |-> "react", filePath |-> <<"a", ".", "a">>, content |-> "hello",
    contentType |-> "undefined"]}

InitTwo ==
  /\ req \in [Sessions -> ConcurrentRequests]
  /\ file = [s \in Sessions |-> req[s].filePath]
  /\ pc = [s \in Sessions |-> "mkdtemp"]
  /\ ws = [s \in Sessions |-> NoWorkspace]
  /\ server = [s \in Sessions |-> NoServer]
  /\ latch = [s \in Sessions |-> Pending]
  /\ settledBy = [s \in Sessions |-> "none"]
  /\ posts = [s \in Sessions |-> 0]
  /\ lastPost = [s \in Sessions |-> NoPost]
  /\ browser = [s \in Sessions |-> "none"]
  /\ writes = [s \in Sessions |-> <<>>]
  /\ result = [s \in Sessions |-> NoResult]
  /\ error = [s \in Sessions |-> "none"]
  /\ logs = [s \in Sessions |-> 0]
  /\ now = 0
  /\ served = [s \in Sessions |-> NoneServed]
  /\ ToolsIdle

\* Each reviewer presses one button of their page.
Decide(s) == ~latch[s].settled /\ PagePost(s)

Running(s) ==
  \/ Mkdtemp(s)
  \/ WriteSource(s)
  \/ Build(s)
  \/ WriteIndex(s)
  \/ Listen(s)
  \/ OpenBrowser(s)
  \/ Decide(s)
  \/ Persist(s)
  \/ RemoveWorkspace(s)
  \/ StopAndReturn(s)

NextTwo == \E s \in Sessions : Running(s)

SpecTwo == InitTwo /\ [][NextTwo]_vars

\* ------------------------------------- one session and its preview server
\* One execute call of either tool that passed the parameter check, with
\* clients sending the server any request while it listens.
ServedRequests ==
  {[kind |-> "file", filePath |-> <<"a", ".", "a">>, content |-> "hello",
    contentType |-> "text/html"],
   [kind |-> "react", filePath |-> <<"a", ".", "a">>, content |-> "hello",
    contentType |-> "undefined"]}

InitServe ==
  /\ req \in [Sessions -> ServedRequests \cup {NoRequest}]
  /\ req[1] \in ServedRequests
  /\ req[2] = NoRequest
  /\ file = [s \in Sessions |-> req[s].filePath]
  /\ pc = [s \in Sessions |-> IF s = 1 THEN "mkdtemp" ELSE "idle"]
  /\ ws = [s \in Sessions |-> NoWorkspace]
  /\ server = [s \in Sessions |-> NoServer]
  /\ latch = [s \in Sessions |-> Pending]
  /\ settledBy = [s \in Sessions |-> "none"]
  /\ posts = [s \in Sessions |-> 0]
  /\ lastPost = [s \in Sessions |-> NoPost]
  /\ browser = [s \in Sessions |-> "none"]
  /\ writes = [s \in Sessions |-> <<>>]
  /\ result = [s \in Sessions |-> NoResult]
  /\ error = [s \in Sessions |-> "none"]
  /\ logs = [s \in Sessions |-> 0]
  /\ now = 0
  /\ served = [s \in Sessions |-> NoneServed]
  /\ ToolsIdle

Serving(s) ==
  \/ Mkdtemp(s)
  \/ WriteUserContent(s)
  \/ WriteSource(s)
  \/ Build(s)
  \/ WriteIndex(s)
  \/ Listen(s)
  \/ OpenBrowser(s)
  \/ PagePost(s)
  \/ HttpRequest(s)
  \/ MalformedPost(s)
  \/ Persist(s)
  \/ RemoveWorkspace(s)
  \/ StopAndReturn(s)

NextServe == Serving(1)

SpecServe == InitServe /\ [][NextServe]_vars

\* ------------------------------------------------------------ askQuestions
\* askQuestions.execute: the questions are keyed by their text in a Map, the
\* pending ones are posed as one form, and the answers are collected in a
\* plain object until the Map is empty.
reviewVars == <<pc, req, file, ws, server, latch, settledBy, posts, lastPost, browser,
                writes, result, error, logs, now, served>>

\* Question texts are arbitrary strings; "__proto__" is the one string that
\* names an inherited accessor of a plain object.
QuestionTexts == {"q1", "q2", "__proto__"}
ChoiceLists == {<<>>, <<"red">>}
Other == "__other__"
Null == "<null>"
FreeTexts == {"yes", Other}
UseJudgement == "The user did not provide an answer, use your own judgement"
QuestionLists ==
  UNION {[1..n -> [question : QuestionTexts, choices : ChoiceLists]] : n \in 0..MaxQuestions}

TreeSelectItem(q, choices) ==
  [key |-> q, type |-> "treeSelect", label |-> q,
   tree |-> {choices[i] : i \in DOMAIN choices} \cup {Other}]
TextItem(q, label) == [key |-> q, type |-> "text", label |-> label, tree |-> {}]

\* Map: entries keep their insertion order; set on a present key replaces its
\* value in place.
MapKeys(m) == {m[i].key : i \in DOMAIN m}
MapGet(m, k) == m[CHOOSE i \in DOMAIN m : m[i].key = k]
MapSet(m, k, item) ==
  IF k \in MapKeys(m)
    THEN [i \in DOMAIN m |-> IF m[i].key = k THEN item ELSE m[i]]
    ELSE Append(m, item)
\* Variant: delete leaves the entry in the Map.
MapKeep(m, k) == m

MapDelete(m, k) == SelectSeq(m, LAMBDA item : item.key # k)

\* completeResults[k] = v on an object literal.  The key "__proto__" reaches
\* the setter inherited from Object.prototype, which ignores a string: no own
\* property is created and Object.entries never lists it.
RecordSet(r, k, v) ==
  IF k = "__proto__" THEN r
  ELSE IF \E i \in DOMAIN r : r[i].question = k
    THEN [i \in DOMAIN r |-> IF r[i].question = k THEN [r[i] EXCEPT !.answer = v] ELSE r[i]]
    ELSE Append(r, [question |-> k, answer |-> v])

\* for (const question of questions) questionItems.set(question.question, ...)
RECURSIVE BuildItems(_, _)
BuildItems(qs, m) ==
  IF qs = <<>> THEN m
  ELSE LET q == Head(qs)
       IN  BuildItems(Tail(qs),
                      MapSet(m, q.question,
                             IF Len(q.choices) > 0 THEN TreeSelectItem(q.question, q.choices)
                             ELSE TextItem(q.question, q.question)))

\* What the human can enter in one field: nothing, one node of the tree
\* (exactly one selection is required), or any text, "__other__" included.
AllowedAnswers(item) ==
  IF item.type = "treeSelect" THEN {Null} \cup item.tree ELSE {Null} \cup FreeTexts

\* result.Questions: one answer per field of the form, in field order.
FormResults(form) ==
  LET all == UNION {AllowedAnswers(form[i]) : i \in DOMAIN form}
  IN  {[i \in DOMAIN form |-> [question |-> form[i].key, answer |-> a[i]]] :
         a \in {b \in [DOMAIN form -> all] :
                  \A i \in DOMAIN form : b[i] \in AllowedAnswers(form[i])}}

\* Variant: one round only, whatever is left pending.
LoopOnce(items) == FALSE

\* while (questionItems.size > 0)
LoopAgain(items) == Len(items) > 0

\* Variant: the sentinel is taken for an ordinary answer.
NeverOther(a) == FALSE

\* answer === "__other__"
IsOther(a) == a = Other

\* The body of the for loop over Object.entries(result.Questions).
RECURSIVE Consume(_, _, _, _)
Consume(items, results, r, i) ==
  IF i > Len(r) THEN [items |-> items, results |-> results]
  ELSE LET q == r[i].question
           a == r[i].answer
       IN  IF a = Null
             THEN Consume(MapDelete(items, q), RecordSet(results, q, UseJudgement), r, i + 1)
           ELSE IF IsOther(a)
             THEN Consume(MapSet(items, q, TextItem(q, MapGet(items, q).label)), results,
                          r, i + 1)
           ELSE Consume(MapDelete(items, q), RecordSet(results, q, a), r, i + 1)

\* Variant: the empty Map is not checked for.
NothingIsEmpty(items) == FALSE

\* questionItems.size === 0
NoQuestions(items) == Len(items) = 0

\* execute up to the do loop: build the Map and return at once when it is
\* empty.
AskExecute ==
  /\ apc = "idle"
  /\ \E qs \in QuestionLists :
       LET items == BuildItems(qs, <<>>)
       IN  /\ questions' = qs
           /\ questionItems' = items
           /\ IF NoQuestions(items)
                THEN /\ apc' = "returned"
                     /\ response' = [kind |-> "noQuestions", entries |-> <<>>]
                ELSE /\ apc' = "ask"
                     /\ UNCHANGED response
  /\ UNCHANGED <<completeResults, answers, rounds>>
  /\ UNCHANGED <<reviewVars, renderVars, humanVars>>

\* agent.askQuestion({message, question: {type: 'form', ...}}): the pending
\* items are posed and execute waits for the human.
AskQuestion ==
  /\ apc = "ask"
  /\ rounds < MaxRounds
  /\ rounds' = rounds + 1
  /\ apc' = "wait"
  /\ UNCHANGED <<questions, questionItems, completeResults, answers, response>>
  /\ UNCHANGED <<reviewVars, renderVars, humanVars>>

\* The form comes back: every answer is consumed, then the loop condition
\* decides between another round and the return.
Answered ==
  /\ apc = "wait"
  /\ \E r \in FormResults(questionItems) :
       LET after == Consume(questionItems, completeResults, r, 1)
       IN  /\ answers' = r
           /\ questionItems' = after.items
           /\ completeResults' = after.results
           /\ IF LoopAgain(after.items)
                THEN /\ apc' = "ask"
                     /\ UNCHANGED response
                ELSE /\ apc' = "returned"
                     /\ response' = [kind |-> "responses", entries |-> after.results]
  /\ UNCHANGED <<questions, rounds>>
  /\ UNCHANGED <<reviewVars, renderVars, humanVars>>

NextAsk == AskExecute \/ AskQuestion \/ Answered

SpecAsk == Init /\ [][NextAsk]_vars

\* The same, with progress: execute runs on whenever it can, and the human
\* sends every form back (await agent.askQuestion resumes).
SpecAskLive == Init /\ [][NextAsk]_vars /\ WF_vars(NextAsk)

\* ------------------------------------------------ rendering one review page
\* execute, step 2: genFileViewHTML({contentString: content, contentType,
\* htmlContentPath}) for a content that passed the parameter check.
RenderIndex ==
  /\ rpc = "idle"
  /\ \E contentString \in Texts, contentType \in RenderContentTypes :
       /\ rin' = [contentString |-> contentString, contentType |-> contentType,
                  htmlContentPath |-> HtmlContentPath(contentType)]
       /\ rout' = GenFileViewHTML(contentString, contentType, HtmlContentPath(contentType))
  /\ rpc' = "rendered"
  /\ UNCHANGED rshown
  /\ UNCHANGED <<reviewVars, askVars, humanVars>>

\* The browser lays out the preformatted block of the served page.
ShowPreformatted ==
  /\ rpc = "rendered"
  /\ rout.element = "pre"
  /\ rshown' = DecodeEntities(rout.inner)
  /\ rpc' = "shown"
  /\ UNCHANGED <<rin, rout>>
  /\ UNCHANGED <<reviewVars, askVars, humanVars>>

NextRender == RenderIndex \/ ShowPreformatted

SpecRender == Init /\ [][NextRender]_vars

\* ---------------------------------------------------------------- askHuman
\* askHuman.execute exists twice: in tools/askHuman.ts, which rejects a
\* missing question, and as the text that follows react-feedback in
\* tools/react-feedback.ts, which does not.
HumanCopies == {"askHuman.ts", "react-feedback.ts"}
HumanQuestions == {"undefined", "", "q"}
ChoiceTexts == {"a", "b"}
\* choices is optional: absent, or a list that may be empty.
HumanChoices ==
  {[given |-> FALSE, list |-> <<>>]} \cup
  [given : {TRUE}, list : UNION {[1..n -> ChoiceTexts] : n \in 0..MaxChoices}]
ResponseTypes == {"undefined", "text", "single", "multiple"}
HumanInputs == [copy : HumanCopies, question : HumanQuestions, choices : HumanChoices,
                response_type : ResponseTypes]

\* choices && choices.length > 0
HasChoices(choices) == choices.given /\ Len(choices.list) > 0

\* Variant: the type follows the choices whatever the caller asked for.
FinalResponseTypeByChoices(choices, argResponseType) ==
  IF HasChoices(choices) THEN "single" ELSE "text"

\* let finalResponseType = argResponseType, defaulted in either branch when
\* it is falsy.
FinalResponseType(choices, argResponseType) ==
  IF HasChoices(choices)
    THEN IF ~Truthy(argResponseType) THEN "single" ELSE argResponseType
    ELSE IF ~Truthy(argResponseType) THEN "text" ELSE argResponseType

\* The instruction line of the message shown in the chat.
PromptLine(copy, finalResponseType) ==
  IF finalResponseType = "multiple" THEN "select one or more"
  ELSE IF copy = "askHuman.ts" \/ finalResponseType = "single" THEN "select one"
  ELSE "none"

\* The object execute returns.
AskHumanResult(copy, choices, argResponseType) ==
  IF HasChoices(choices)
    THEN [status |-> "question_asked_choices",
          response_type |-> FinalResponseType(choices, argResponseType),
          choices |-> choices.list,
          prompt |-> PromptLine(copy, FinalResponseType(choices, argResponseType))]
    ELSE [status |-> "question_asked_text",
          response_type |-> FinalResponseType(choices, argResponseType),
          choices |-> <<>>,
          prompt |-> "none"]

\* execute: the question check of tools/askHuman.ts, then the question is
\* shown in the chat and the result returned.
AskHuman ==
  /\ hpc = "idle"
  /\ \E args \in HumanInputs :
       /\ hin' = args
       /\ IF args.copy = "askHuman.ts" /\ ~Truthy(args.question)
            THEN /\ hpc' = "thrown"
                 /\ UNCHANGED hout
            ELSE /\ hpc' = "returned"
                 /\ hout' = AskHumanResult(args.copy, args.choices, args.response_type)
  /\ UNCHANGED <<reviewVars, askVars, renderVars>>

NextHuman == AskHuman

SpecHuman == Init /\ [][NextHuman]_vars

\* ======================================================================
\* Properties
\* ======================================================================
Settled(s) == latch[s].settled
Decision(s) == latch[s].value
Finished(s) == pc[s] \in {"returned", "thrown"}

\* C1: once the first POST /result has settled the latch, a later POST is
\* answered "200 ok" and changes neither the latch nor the position, the
\* error, the result or the content-store writes of the session.
C1_LaterSubmissionIsNoOp ==
  [][\A s \in Sessions :
       Settled(s) =>
         /\ latch'[s] = latch[s]
         /\ posts'[s] # posts[s] =>
              /\ lastPost'[s].answer = "200 ok"
              /\ writes'[s] = writes[s]
              /\ pc'[s] = pc[s]
              /\ error'[s] = error[s]
              /\ result'[s] = result[s]]_vars

\* C1 witness: a file review that returned "accepted" although a second
\* submission, a rejection, arrived before the server was stopped.
C1_Witness ==
  /\ pc[1] = "returned"
  /\ posts[1] = 2
  /\ Decision(1).accepted = "true"
  /\ lastPost[1].accepted = "false"
  /\ result[1].status = "accepted"
  /\ Len(writes[1]) = 1

\* C2 (as claimed): when the content-store write throws, the workspace has
\* been removed and the server stopped by the time execute rejects.
C2_CleanupAfterFailedWrite ==
  \A s \in Sessions :
    (pc[s] = "thrown" /\ error[s] = "write") =>
      (ws[s].state = "removed" /\ server[s].state = "closed")

\* C3: a file review whose settling submission is an accept makes exactly one
\* content-store write, of the request's content to the request's filePath,
\* and returns status "accepted" with that filePath and no rejectedFilePath.
C3_AcceptRoundTrip ==
  \A s \in Sessions :
    (req[s].kind = "file" /\ Settled(s) /\ Decision(s).accepted = "true") =>
      /\ Len(writes[s]) <= 1
      /\ \A i \in 1..Len(writes[s]) :
           writes[s][i].path = req[s].filePath /\ writes[s][i].content = req[s].content
      /\ pc[s] = "returned" =>
           /\ Len(writes[s]) = 1
           /\ writes[s][1].ok
           /\ result[s] = [status |-> "accepted", comment |-> Decision(s).comment,
                           filePath |-> req[s].filePath, rejectedFilePath |-> NoPath]

\* C3 witness: an accepted file review has returned.
C3_Witness ==
  /\ req[1].kind = "file"
  /\ pc[1] = "returned"
  /\ Decision(1).accepted = "true"
  /\ Len(writes[1]) = 1
  /\ writes[1][1].path = req[1].filePath
  /\ writes[1][1].content = "hello"
  /\ writes[1][1].ok

\* The human rejected: the settling submission carries accepted = false (and
\* no status field, as the pages send it).
HumanRejected(s) ==
  Settled(s) /\ Decision(s).accepted = "false" /\ Decision(s).status = "undefined"

\* C4 (as claimed): in a rejected session the artifact is written at most once,
\* to a path that differs from the target path; the target is never written.
C4_RejectionNeverWritesTarget ==
  \A s \in Sessions :
    HumanRejected(s) =>
      /\ Len(writes[s]) <= 1
      /\ \A i \in 1..Len(writes[s]) : writes[s][i].ok => writes[s][i].path # file[s]

\* C5 (as claimed): in a component review, when the page's Accept button
\* settled the latch, the code is written to the target path.
C5_PageAcceptWritesTarget ==
  \A s \in Sessions :
    (req[s].kind = "react" /\ settledBy[s] = "page" /\ Decision(s).accepted = "true") =>
      \A i \in 1..Len(writes[s]) : writes[s][i].ok => writes[s][i].path = file[s]

\* C6 (as claimed): a browser launcher that throws or is absent never makes
\* execute fail.
C6_LauncherFailureDoesNotFailSession ==
  \A s \in Sessions : ~(pc[s] = "thrown" /\ error[s] = "open")

\* C7 (as claimed): once a decision was submitted and the content-store write
\* returned, a settled execute has produced an outcome, and at that moment the
\* workspace has been removed and the server stopped.
C7_SettlesCleanedUp ==
  \A s \in Sessions :
    (Finished(s) /\ Settled(s) /\ Len(writes[s]) = 1 /\ writes[s][1].ok) =>
      /\ pc[s] = "returned"
      /\ ws[s].state = "removed"
      /\ server[s].state = "closed"

CleanupBegun(s) ==
  \/ ws[s].state = "removed"
  \/ server[s].state = "closed"
  \/ logs[s] > 0
  \/ error[s] = "rm"

\* C8: within a session no content-store write precedes the decision, no
\* cleanup step (workspace removal, removal failure, server stop) precedes the
\* successful write, and the result is delivered only after the removal was
\* carried out and the server was stopped.
C8_DecisionWriteCleanupResult ==
  \A s \in Sessions :
    /\ writes[s] # <<>> => Settled(s)
    /\ CleanupBegun(s) => (Len(writes[s]) = 1 /\ writes[s][1].ok)
    /\ pc[s] = "returned" =>
         /\ server[s].state = "closed"
         /\ ws[s].state = "removed" \/ logs[s] > 0
    /\ result[s] # NoResult => pc[s] = "returned"

\* C8 witness: a session went through decision, write, removal and stop and
\* returned its result.
C8_Witness ==
  /\ pc[1] = "returned"
  /\ result[1] # NoResult
  /\ Settled(1)
  /\ Len(writes[1]) = 1
  /\ ws[1].state = "removed"
  /\ server[1].state = "closed"

\* C9: a session whose server has started listening and whose latch is still
\* pending has written nothing, still has its workspace and its listening
\* server and has not returned; and nothing but a submission moves it out of
\* the awaiting state.
C9_NoProgressWithoutDecision ==
  /\ [](\A s \in Sessions :
          (server[s].state # "none" /\ ~Settled(s)) =>
            /\ writes[s] = <<>>
            /\ ws[s].state = "exists"
            /\ server[s].state = "listening"
            /\ pc[s] # "returned"
            /\ result[s] = NoResult)
  /\ [][\A s \in Sessions :
          (pc[s] = "await" /\ ~Settled(s) /\ ~Settled(s)') =>
            (pc'[s] = "await" /\ writes'[s] = writes[s] /\ ws'[s] = ws[s]
             /\ server'[s] = server[s])]_vars

\* C9 witness: a session awaits with its server listening and no decision.
C9_Witness ==
  /\ pc[1] = "await"
  /\ server[1].state = "listening"
  /\ ~Settled(1)
  /\ browser[1] # "none"

\* A request that lacks a required field.
MissingRequired(r) ==
  \/ r.kind = "file" /\ (r.filePath \in {NoPath, <<>>} \/ r.content \in {"undefined", ""})
  \/ r.kind = "react" /\ r.content \in {"undefined", ""}

\* C10: a call with a missing or empty required field has thrown the
\* validation error and has acquired nothing: no workspace, no server, no
\* browser launch, no content-store write.
C10_ValidationAcquiresNothing ==
  \A s \in Sessions :
    MissingRequired(req[s]) =>
      /\ pc[s] = "thrown"
      /\ error[s] = "validation"
      /\ ws[s] = NoWorkspace
      /\ server[s] = NoServer
      /\ browser[s] = "none"
      /\ writes[s] = <<>>

\* C10 witness: a file review called with a path but empty content threw.
C10_Witness ==
  /\ req[1].kind = "file"
  /\ req[1].filePath = <<"a">>
  /\ req[1].content = ""
  /\ pc[1] = "thrown"
  /\ error[1] = "validation"

\* C11 (as claimed): when staging or bundling fails in a component review,
\* the workspace is removed before the error reaches the caller and no server
\* is left running.
C11_StagingFailureReleasesWorkspace ==
  \A s \in Sessions :
    (req[s].kind = "react" /\ pc[s] = "thrown" /\ error[s] \in {"fs", "build"}) =>
      (ws[s].state = "removed" /\ server[s].state # "listening")

\* C12 (as claimed): when the server cannot be started, execute rejects with
\* the error (it neither hangs nor takes the process down) and the workspace
\* has been removed.
C12_ListenFailureRejectsCleanly ==
  \A s \in Sessions :
    /\ pc[s] \notin {"hung", "crashed"}
    /\ (pc[s] = "thrown" /\ error[s] = "listen") => ws[s].state = "removed"

\* The removal of the workspace was attempted after a successful write and
\* failed: the session is past fs.rm and the directory is still there.
RemovalFailed(s) ==
  /\ Len(writes[s]) = 1
  /\ writes[s][1].ok
  /\ pc[s] # "rm"
  /\ ws[s].state = "exists"

\* C13: in a file review a failed workspace removal is logged and nothing
\* else: execute does not throw, the server is stopped when it returns and
\* the result has the status and comment of the decision.
C13_FileRemovalFailureOnlyLogged ==
  \A s \in Sessions :
    (req[s].kind = "file" /\ RemovalFailed(s)) =>
      /\ logs[s] = 1
      /\ error[s] = "none"
      /\ pc[s] \in {"stop", "returned"}
      /\ pc[s] = "returned" =>
           /\ server[s].state = "closed"
           /\ result[s].status =
                (IF Decision(s).accepted = "true" THEN "accepted" ELSE "rejected")
           /\ result[s].comment = Decision(s).comment

\* C13 witness: a file review returned although its workspace could not be
\* removed.
C13_Witness ==
  /\ req[1].kind = "file"
  /\ RemovalFailed(1)
  /\ pc[1] = "returned"
  /\ result[1].status = "rejected"
  /\ result[1].comment = "lgtm"

\* C14 (as claimed): in a component review a failed workspace removal is not
\* propagated: execute does not throw.
C14_ReactRemovalFailureNotPropagated ==
  \A s \in Sessions :
    (req[s].kind = "react" /\ RemovalFailed(s)) =>
      (pc[s] # "thrown" /\ (pc[s] = "returned" => server[s].state = "closed"))

\* The name the documentation promises for a rejection: token inserted before
\* the final extension of the file name (the last path segment), or appended
\* when the file name has none.
DocumentedRejectName(p, token) ==
  LET dirLen == Len(p) - Len(LastSegment(p))
      d == {i \in Dots(p) : i > dirLen}
  IN  IF d # {} /\ Max(d) < Len(p)
      THEN SubSeq(p, 1, Max(d) - 1) \o <<".", token>> \o SubSeq(p, Max(d), Len(p))
      ELSE p \o <<".", token>>

\* C15 (as claimed): a rejected file review whose target names a file writes
\* to the target path with ".rejected<timestamp>" inserted immediately before
\* the final extension of the file name, directory and base name kept.
C15_FileRejectNameBeforeExtension ==
  \A s \in Sessions :
    (req[s].kind = "file" /\ HumanRejected(s) /\ LastSegment(file[s]) # <<>>) =>
      \A i \in 1..Len(writes[s]) :
        writes[s][i].ok =>
        writes[s][i].path =
          DocumentedRejectName(file[s],
                               "rejected" \o ToString(FormatSeconds(writes[s][i].at)))

\* The name ends in an extension: a dot followed by at least one character.
HasExtension(p) == Dots(p) # {} /\ Max(Dots(p)) < Len(p)

\* C16 (as claimed): a rejected component review whose file name has an
\* extension writes to the file name with ".rejected<timestamp>" inserted
\* immediately before its final extension.
C16_ReactRejectNameBeforeExtension ==
  \A s \in Sessions :
    (req[s].kind = "react" /\ HumanRejected(s) /\ HasExtension(file[s])) =>
      \A i \in 1..Len(writes[s]) :
        writes[s][i].ok =>
        writes[s][i].path =
          DocumentedRejectName(file[s],
                               "rejected" \o ToString(FormatMinutes(writes[s][i].at)))

\* C18 (as claimed): the rejectedFilePath of a rejected file review's result
\* is the path the rejected content was written to.
C18_RejectedFilePathIsWrittenPath ==
  \A s \in Sessions :
    (req[s].kind = "file" /\ pc[s] = "returned" /\ result[s].status = "rejected") =>
      result[s].rejectedFilePath = writes[s][1].path

\* C17 (as claimed): two rejections of the same target that are persisted at
\* different instants are persisted to different paths.
C17_RejectionsNeverCollide ==
  \A s, t \in Sessions :
    (/\ s # t
     /\ req[s].kind = req[t].kind
     /\ file[s] = file[t]
     /\ HumanRejected(s) /\ HumanRejected(t)
     /\ Len(writes[s]) = 1 /\ Len(writes[t]) = 1
     /\ writes[s][1].ok /\ writes[t][1].ok
     /\ writes[s][1].at # writes[t][1].at)
    => writes[s][1].path # writes[t][1].path

\* C19: two sessions whose workspaces exist at the same time have different
\* directories, two sessions listening at the same time have different ports,
\* and a workspace is removed and a server stopped only by the cleanup steps
\* of the session that owns it.
C19_SessionsShareNothing ==
  /\ [](\A s, t \in Sessions :
          s # t =>
            /\ (ws[s].state = "exists" /\ ws[t].state = "exists") => ws[s].dir # ws[t].dir
            /\ (server[s].state = "listening" /\ server[t].state = "listening") =>
                 server[s].port # server[t].port)
  /\ [][\A s \in Sessions :
          /\ (ws[s].state = "exists" /\ ws'[s].state # "exists") => pc[s] = "rm"
          /\ (server[s].state = "listening" /\ server'[s].state # "listening") =>
               pc[s] = "stop"]_vars

\* C19 witness: one session has cleaned up and returned while the other still
\* awaits its decision with its own workspace and listening server.
C19_Witness ==
  /\ pc[1] = "returned"
  /\ ws[1].state = "removed"
  /\ server[1].state = "closed"
  /\ pc[2] = "await"
  /\ ws[2].state = "exists"
  /\ "index.html" \in ws[2].files
  /\ server[2].state = "listening"

PosedTexts == {questions[i].question : i \in DOMAIN questions}
Recorded(q) == {i \in DOMAIN response.entries : response.entries[i].question = q}

\* C20 (as claimed): when execute returns for a non-empty questions list, no
\* question is pending and every distinct question text that was posed has
\* exactly one recorded answer in the response.
C20_ReturnsWithEveryQuestionAnswered ==
  (apc = "returned" /\ Len(questions) > 0) =>
    /\ questionItems = <<>>
    /\ \A q \in PosedTexts : Cardinality(Recorded(q)) = 1

RecordedIn(results, q) == {i \in DOMAIN results : results[i].question = q}

\* C21: when the form comes back with '__other__' for a tree-select field,
\* the question gets no recorded answer in that round, stays pending as a
\* text field with the label it had, and execute goes on to pose it again;
\* no recorded answer, in the record or in the returned response, is ever
\* the sentinel '__other__'.
C21_OtherIsReposedAsText ==
  /\ [][apc = "wait" =>
          \A i \in DOMAIN questionItems :
            (questionItems[i].type = "treeSelect" /\ answers'[i].answer = Other) =>
              LET q == questionItems[i].key
              IN  /\ RecordedIn(completeResults', q) = RecordedIn(completeResults, q)
                  /\ RecordedIn(completeResults', q) = {}
                  /\ q \in MapKeys(questionItems')
                  /\ MapGet(questionItems', q).type = "text"
                  /\ MapGet(questionItems', q).label = questionItems[i].label
                  /\ apc' = "ask"]_vars
  /\ [](/\ \A i \in DOMAIN completeResults : completeResults[i].answer # Other
        /\ \A i \in DOMAIN response.entries : response.entries[i].answer # Other)

\* C21 witness: a choice question was answered 'Other' in the first round, then
\* answered in free text in the second, and execute returned that text.
C21_Witness ==
  /\ apc = "returned"
  /\ rounds = 2
  /\ questions = <<[question |-> "q1", choices |-> <<"red">>]>>
  /\ answers = <<[question |-> "q1", answer |-> "yes"]>>
  /\ response = [kind |-> "responses", entries |-> <<[question |-> "q1", answer |-> "yes"]>>]

\* C22 (as claimed): when the form comes back with null for a field, the
\* question is recorded with the fixed 'use your own judgement' text and leaves
\* the pending set, and a question that has left the pending set never comes
\* back into it.
C22_NullAnswerIsRecordedWithDefault ==
  /\ [][apc = "wait" =>
          \A i \in DOMAIN questionItems :
            answers'[i].answer = Null =>
              LET q == questionItems[i].key
              IN  /\ \E j \in DOMAIN completeResults' :
                       completeResults'[j] = [question |-> q, answer |-> UseJudgement]
                  /\ q \notin MapKeys(questionItems')]_vars
  /\ [][(apc \in {"ask", "wait"}) =>
          MapKeys(questionItems') \subseteq MapKeys(questionItems)]_vars

Rendered == rpc \in {"rendered", "shown"}
MarkupChars == {"<", ">", "\"", "'"}
StartsEntity(s, i) ==
  \E c \in DOMAIN EntityMap :
    /\ i + Len(EntityMap[c]) - 1 <= Len(s)
    /\ SubSeq(s, i, i + Len(EntityMap[c]) - 1) = EntityMap[c]
Count(s, chars) == Cardinality({i \in DOMAIN s : s[i] \in chars})

\* C23: for every content kind other than markdown (text/markdown,
\* text/x-markdown), html and json, unrecognized kinds included, the page
\* declares the type text/plain and shows the artifact in a preformatted
\* block, HTML-escaped, so that the browser displays it verbatim.
C23_OtherKindsRenderAsPlainText ==
  (/\ Rendered
   /\ rin.contentType \notin {"text/markdown", "text/x-markdown", "text/html",
                              "application/json"}) =>
    /\ rout.effectiveContentType = "text/plain"
    /\ rout.element = "pre"
    /\ rout.inner = EscapeHTML(rin.contentString)
    /\ DecodeEntities(rout.inner) = rin.contentString
    /\ rpc = "shown" => rshown = rin.contentString

\* C23 witness: an unrecognized kind whose artifact contains a tag has been
\* rendered and displayed.
C23_Witness ==
  /\ rpc = "shown"
  /\ rin.contentType = "image/png"
  /\ rin.contentString = <<"<", "l", ">">>
  /\ rout.effectiveContentType = "text/plain"
  /\ rshown = <<"<", "l", ">">>

\* C24: for json and plain-text content the inner markup of the block has no
\* raw < > " ' character, every & in it starts one of the five entities, there
\* are exactly as many entities as the artifact has special characters, and
\* decoding the entities once gives the artifact back (nothing is escaped
\* twice).
C24_EveryMarkupCharacterEscapedOnce ==
  (Rendered /\ rout.element = "pre") =>
    /\ \A i \in DOMAIN rout.inner :
         /\ rout.inner[i] \notin MarkupChars
         /\ rout.inner[i] = "&" => StartsEntity(rout.inner, i)
    /\ Count(rout.inner, {"&"}) = Count(rin.contentString, DOMAIN EntityMap)
    /\ DecodeEntities(rout.inner) = rin.contentString
    /\ rpc = "shown" => rshown = rin.contentString

\* C24 witness: a json artifact that spells an entity, "&lt;", is rendered as
\* "&amp;lt;" and displayed as "&lt;".
C24_Witness ==
  /\ rpc = "shown"
  /\ rin.contentType = "application/json"
  /\ rin.contentString = <<"&", "l", "t", ";">>
  /\ rout.inner = <<"&", "a", "m", "p", ";", "l", "t", ";">>
  /\ rshown = <<"&", "l", "t", ";">>

\* C25: in a file review the side file user_content.html is staged if and
\* only if the content type is text/html; it then holds the artifact, and the
\* index.html staged beside it shows an iframe whose src is the side file and
\* inlines nothing of the artifact.
C25_HtmlArtifactOnlyInSideFile ==
  \A s \in Sessions :
    req[s].kind = "file" =>
      /\ "user_content.html" \in ws[s].files => req[s].contentType = "text/html"
      /\ "index.html" \in ws[s].files =>
           /\ req[s].contentType = "text/html" => "user_content.html" \in ws[s].files
           /\ req[s].contentType = "text/html" =>
                /\ ws[s].userContent = AsText(req[s].content)
                /\ ws[s].index.element = "iframe"
                /\ ws[s].index.src = "./user_content.html"
                /\ \A i \in DOMAIN ws[s].index.inner :
                     ws[s].index.inner[i] \notin {req[s].content}
                /\ ws[s].index.inner = <<>>

\* C25 witness: an html artifact is being reviewed, with both files staged and
\* the server listening.
C25_Witness ==
  /\ req[1].kind = "file"
  /\ req[1].contentType = "text/html"
  /\ pc[1] = "await"
  /\ ws[1].files = {"user_content.html", "index.html"}
  /\ ws[1].userContent = <<"hello">>
  /\ ws[1].index.element = "iframe"

\* C26: whenever askHuman.execute returns, the response type is the one given
\* explicitly, else 'single' for a non-empty choices list and 'text' for
\* absent or empty choices, and the status is 'question_asked_choices' exactly
\* when choices is non-empty, else 'question_asked_text'; the only inputs for
\* which it does not return are those of tools/askHuman.ts without a question.
C26_ResponseTypeResolution ==
  /\ hpc = "thrown" => (hin.copy = "askHuman.ts" /\ hin.question \in {"undefined", ""})
  /\ hpc = "returned" =>
       LET nonEmpty == hin.choices.given /\ hin.choices.list # <<>>
       IN  /\ hin.response_type # "undefined" => hout.response_type = hin.response_type
           /\ (hin.response_type = "undefined" /\ nonEmpty) => hout.response_type = "single"
           /\ (hin.response_type = "undefined" /\ ~nonEmpty) => hout.response_type = "text"
           /\ hout.status = IF nonEmpty THEN "question_asked_choices"
                            ELSE "question_asked_text"

\* C26 witness: choices were given together with the explicit type 'text';
\* the type is kept and the status follows the choices.
C26_Witness ==
  /\ hpc = "returned"
  /\ hin.choices = [given |-> TRUE, list |-> <<"a", "b">>]
  /\ hin.response_type = "text"
  /\ hout.response_type = "text"
  /\ hout.status = "question_asked_choices"

\* C27: a session attempts at most one content-store write, whatever the
\* outcome of the write and however many decisions are submitted.
C27_AtMostOneWrite == \A s \in Sessions : Len(writes[s]) <= 1

\* C27 witness: the write failed, execute has thrown, and a second decision
\* was submitted to the server that is still listening.
C27_Witness ==
  /\ pc[1] = "thrown"
  /\ error[1] = "write"
  /\ posts[1] = 2
  /\ Len(writes[1]) = 1
  /\ ~writes[1][1].ok

\* C28: when the content-store write fails, execute rejects with that error
\* and returns no result object.
C28_WriteFailurePropagates ==
  \A s \in Sessions :
    (Len(writes[s]) >= 1 /\ ~writes[s][Len(writes[s])].ok) =>
      /\ pc[s] = "thrown"
      /\ error[s] = "write"
      /\ result[s] = NoResult

\* C28 witness: a file review was accepted from the page and the write of the
\* target failed.
C28_Witness ==
  /\ req[1].kind = "file"
  /\ Settled(1)
  /\ settledBy[1] = "page"
  /\ FileAccepted(Decision(1))
  /\ Len(writes[1]) = 1
  /\ ~writes[1][1].ok
  /\ writes[1][1].path = file[1]
  /\ pc[1] = "thrown"

\* The phases of a session, in order.
PhasesOf(r) ==
  IF r.kind = "react"
    THEN <<"mkdtemp", "writeSource", "build", "writeIndex", "listen", "open", "await",
           "rm", "stop", "returned">>
  ELSE IF r.contentType = "text/html"
    THEN <<"mkdtemp", "writeUserContent", "writeIndex", "listen", "open", "await",
           "rm", "stop", "returned">>
  ELSE <<"mkdtemp", "writeIndex", "listen", "open", "await", "rm", "stop", "returned">>

\* Every step of a session either fails it or takes it to the next phase.
InPhaseOrder ==
  \A s \in Sessions :
    pc'[s] # pc[s] =>
      \/ pc'[s] \in {"thrown", "hung", "crashed"}
      \/ pc[s] = "idle" /\ pc'[s] = "mkdtemp"
      \/ \E i \in 1..(Len(PhasesOf(req[s])) - 1) :
           /\ req'[s] = req[s]
           /\ PhasesOf(req[s])[i] = pc[s]
           /\ PhasesOf(req[s])[i + 1] = pc'[s]

\* What each phase finds done: the browser is opened and the decision awaited
\* only with a server that listens, a write follows a decision, the result
\* follows the write and the stop of the server.
PhaseEffects(s) ==
  /\ browser[s] # "none" => server[s].state \in {"listening", "closed"}
  /\ pc[s] \in {"open", "await"} => server[s].state = "listening"
  /\ Len(writes[s]) > 0 => (Settled(s) /\ browser[s] # "none")
  /\ pc[s] \in {"rm", "stop", "returned"} => (Len(writes[s]) = 1 /\ writes[s][1].ok)
  /\ pc[s] = "returned" => (server[s].state = "closed" /\ result[s] # NoResult)
  /\ result[s] # NoResult => pc[s] = "returned"

\* C29 (as claimed): the phases come in the fixed order, and at no time does
\* the server listen on a workspace that lacks index.html.
C29_FixedPhaseOrder ==
  /\ [][InPhaseOrder]_vars
  /\ [](\A s \in Sessions :
          /\ PhaseEffects(s)
          /\ server[s].state = "listening" => "index.html" \in ws[s].files)

\* C29 (amended): the phases come in the fixed order; the server starts to
\* listen only on a workspace that has index.html and, as long as the
\* workspace exists, never listens on one that lacks it.  (Cleanup removes the
\* workspace first and stops the server second.)
C29_FixedPhaseOrderUntilCleanup ==
  /\ [][InPhaseOrder]_vars
  /\ [][\A s \in Sessions :
          (server[s].state # "listening" /\ server'[s].state = "listening") =>
            (ws[s].state = "exists" /\ "index.html" \in ws[s].files)]_vars
  /\ [](\A s \in Sessions :
          /\ PhaseEffects(s)
          /\ (server[s].state = "listening" /\ ws[s].state = "exists") =>
               "index.html" \in ws[s].files)

\* C29 witness: a session that went through every phase is in its cleanup, the
\* workspace removed and the server not yet stopped.
C29_Witness ==
  /\ req[1].kind = "file"
  /\ req[1].contentType = "text/html"
  /\ pc[1] = "stop"
  /\ browser[1] = "opened"
  /\ Len(writes[1]) = 1
  /\ ws[1].state = "removed"
  /\ server[1].state = "listening"

DecisionRequest(r) == r.method = "POST" /\ r.path = "/result"

\* C30: the decision latch changes only in a step that answers POST /result,
\* and a step that answers any other request (GET or HEAD of a staged file,
\* of "/", of an unknown path or of /result, POST to another path) changes
\* nothing but the record of the request: latch, content-store writes,
\* workspace, server and the position of execute stay as they are.
C30_OnlyPostResultSettles ==
  [][\A s \in Sessions :
       /\ latch'[s] # latch[s] => DecisionRequest(served'[s])
       /\ (served'[s] # served[s] /\ ~DecisionRequest(served'[s])) =>
            /\ latch' = latch
            /\ posts' = posts
            /\ writes' = writes
            /\ ws' = ws
            /\ server' = server
            /\ pc' = pc
            /\ result' = result]_vars

\* C30 witness: a GET of /result was answered 404 while execute awaits the
\* decision; the latch is still pending and nothing was written.
C30_Witness ==
  /\ pc[1] = "await"
  /\ served[1] = [method |-> "GET", path |-> "/result", status |-> 404]
  /\ "index.html" \in ws[1].files
  /\ latch[1] = Pending
  /\ writes[1] = <<>>

Malformed(s) == posts'[s] # posts[s] /\ lastPost'[s].accepted = "none"

\* C31: a POST /result whose body is not a JSON object leaves the decision
\* latch as it was and brings nothing down: execute stays where it is and
\* every server goes on listening, for the file review and the component
\* review alike.
C31_MalformedSubmissionChangesNothing ==
  [][\A s \in Sessions :
       Malformed(s) => (latch'[s] = latch[s] /\ pc' = pc /\ server' = server)]_vars

\* The values of the accepted field, by what JavaScript makes of them in a
\* condition.
FalsyAccepted == {"false", "undefined", "null"}
TruthyAccepted == {"true", "1"}

\* The outcome of a settled file review: the path of the write, once there is
\* one, and the status of the result, once there is one.
FileOutcomeIs(s, accepts) ==
  /\ pc[s] \in {"rm", "stop", "returned"} => Len(writes[s]) = 1
  /\ writes[s] # <<>> =>
       writes[s][1].path = IF accepts THEN file[s]
                           ELSE RejectFileName(file[s], writes[s][1].at)
  /\ result[s] # NoResult =>
       result[s].status = IF accepts THEN "accepted" ELSE "rejected"

\* C32 as stated: a file review is settled as accepted, and the target path
\* written, only if the submission that settled the latch carried accepted =
\* true; any other value settles it as rejected.
C32_AcceptedOnlyIfTrue ==
  \A s \in Sessions :
    (req[s].kind = "file" /\ Settled(s)) =>
      FileOutcomeIs(s, Decision(s).accepted = "true")

\* C32, amended: a file review is settled as accepted, and the target path
\* written, exactly if the submission that settled the latch carried a truthy
\* accepted (true, but also the number 1); false, a missing field and null
\* settle it as rejected, with the write going to the '.rejected' path.
C32_AcceptedOnlyIfTruthy ==
  \A s \in Sessions :
    (req[s].kind = "file" /\ Settled(s)) =>
      /\ Decision(s).accepted \in FalsyAccepted \cup TruthyAccepted
      /\ FileOutcomeIs(s, Decision(s).accepted \in TruthyAccepted)

\* C32 witness: a file review settled by a submission without an accepted
\* field has returned 'rejected' after one write to the '.rejected' path.
C32_Witness ==
  /\ req[1].kind = "file"
  /\ pc[1] = "returned"
  /\ Decision(1).accepted = "undefined"
  /\ result[1].status = "rejected"
  /\ Len(writes[1]) = 1
  /\ writes[1][1].path = RejectFileName(file[1], writes[1][1].at)
  /\ writes[1][1].path # file[1]

\* The round the last answers were given in, and whether one of them was the
\* sentinel typed into a free-text field.  (A field still pending after the
\* first round was answered with the sentinel and is a text field since.)
AnswerRound == IF apc = "wait" THEN rounds - 1 ELSE rounds
FirstType(q) == MapGet(BuildItems(questions, <<>>), q).type
OtherInFreeText ==
  \E i \in DOMAIN answers :
    /\ answers[i].answer = Other
    /\ (AnswerRound >= 2 \/ FirstType(answers[i].question) = "text")

\* C33: unless the human types '__other__' into a free-text field, execute
\* returns; a third round is posed only after the human did so in the second
\* (so a question answered sensibly is posed at most twice: once as a choice,
\* once as free text); and a round in which every answer is '__other__' never
\* ends the loop: the same questions stay pending and are posed again.
C33_TerminatesUnlessOtherIsRepeated ==
  /\ <>(apc = "returned" \/ OtherInFreeText)
  /\ [][(rounds' > 2 /\ rounds' # rounds) => OtherInFreeText]_vars
  /\ [][(apc = "wait" /\ apc' # "wait" /\
           \A i \in DOMAIN answers' : answers'[i].answer = Other) =>
          /\ apc' = "ask"
          /\ MapKeys(questionItems') = MapKeys(questionItems)]_vars

\* C33 witness: of two questions, the free-text one was answered in the first
\* round and the choice one with 'Other'; the second round asked only for the
\* latter as free text, and execute returned after it.
C33_Witness ==
  /\ apc = "returned"
  /\ rounds = 2
  /\ questions = <<[question |-> "q1", choices |-> <<"red">>],
                   [question |-> "q2", choices |-> <<>>]>>
  /\ answers = <<[question |-> "q1", answer |-> "yes"]>>
  /\ response.entries = <<[question |-> "q2", answer |-> "yes"],
                          [question |-> "q1", answer |-> "yes"]>>

AnsweredTexts == {completeResults[i].question : i \in DOMAIN completeResults}

\* C34: from round to round the pending questions only become fewer; no
\* pending question has a recorded answer; a question answered with anything
\* but '__other__' (a choice, free text, or nothing at all) leaves the pending
\* set in that round, so it is not posed again; and a recorded answer stays
\* as it was recorded, at its place, in every later round.
C34_PendingShrinksAnswersStay ==
  /\ [][(apc \in {"ask", "wait"}) =>
          /\ MapKeys(questionItems') \subseteq MapKeys(questionItems)
          /\ \A i \in DOMAIN completeResults :
               i \in DOMAIN completeResults' /\ completeResults'[i] = completeResults[i]]_vars
  /\ [][apc = "wait" =>
          \A i \in DOMAIN answers' :
            answers'[i].answer # Other =>
              answers'[i].question \notin MapKeys(questionItems')]_vars
  /\ [](MapKeys(questionItems) \cap AnsweredTexts = {})

\* C34 witness: the second round is out with the one question that was
\* answered 'Other'; the answer the other question got in the first round is
\* on record and that question is not in the form.
C34_Witness ==
  /\ apc = "wait"
  /\ rounds = 2
  /\ Len(questions) = 2
  /\ MapKeys(questionItems) = {"q1"}
  /\ completeResults = <<[question |-> "q2", answer |-> "red"]>>

C36_OneFieldAndOneAnswerPerQuestion ==
  /\ (apc = "wait" /\ rounds = 1) => Len(questionItems) = Len(questions)
  /\ (apc = "returned" /\ questions # <<>>) => Len(response.entries) = Len(questions)

====
